---- MODULE Spec2Model ----
(***************************************************************************)
(* rcore_nx: the NX (Switch, libnx) platform backend of raylib.            *)
(*                                                                         *)
(* The module models src/platforms/rcore_nx.c as a state machine over the  *)
(* shared CORE state, the file-private platform data and the part of the   *)
(* native environment (EGL handles, the monotonic clock) the file acts on. *)
(* Every exported function is one action; native calls that can fail and   *)
(* the raw controller / touch samples are inputs drawn with \E.            *)
(*                                                                         *)
(* float and double values are kept as fixed-point integers in units of    *)
(* 1/Fixed; a C bool stored in an int is 0 or 1.                           *)
(***************************************************************************)
EXTENDS Integers, Sequences, FiniteSets, TLC

VARIABLES
    CORE,        \* extern CoreData CORE (the fields this file reads or writes)
    platform,    \* static PlatformData platform
    egl,         \* native EGL side: the handles that are live, the next fresh handle
    clock,       \* CLOCK_MONOTONIC, in nanoseconds
    NX_DISABLE_GAMEPAD_EMULATION,  \* the build flag (fixed for a whole behaviour)
    lastOp,      \* the function of this file that ran last
    ret,         \* what it returned
    calls,       \* the native / library calls it issued, in order
    frames,      \* number of PollInputEvents calls so far
    sampled,     \* the touch and gamepad samples the last PollInputEvents read
    lastTime     \* the last GetTime call (clock reading, base, result) and the one before

vars == <<CORE, platform, egl, clock, NX_DISABLE_GAMEPAD_EMULATION,
          lastOp, ret, calls, frames, sampled, lastTime>>

----------------------------------------------------------------------------
(* Bounds of the model                                                     *)

\* number of gamepad slots modelled (MAX_GAMEPADS of the build)
MaxGamepads == 2
\* number of touch slots modelled (MAX_TOUCH_POINTS of the build)
MaxTouchPoints == 2
\* PollInputEvents calls explored in one behaviour
MaxFrames == 2
\* native handles the EGL side hands out in one behaviour
MaxHandles == 5
\* last clock reading explored (in clock steps)
MaxClock == 4

----------------------------------------------------------------------------
(* Numbers                                                                 *)

\* the fixed-point unit: the value 1.0f
Fixed == 100

\* C integer division (truncates toward zero)
CDiv(a, b) ==
    IF (a >= 0) = (b > 0) THEN (IF a >= 0 THEN a ELSE -a) \div (IF b > 0 THEN b ELSE -b)
    ELSE -((IF a >= 0 THEN a ELSE -a) \div (IF b > 0 THEN b ELSE -b))

\* (float)n as a fixed-point value
ToFloat(n) == n * Fixed

\* a/b on fixed-point values
FloatDiv(a, b) == CDiv(a * Fixed, b)

\* a*b on fixed-point values
FloatMul(a, b) == CDiv(a * b, Fixed)

BIT(n) == 2^n

\* the one-bit words
OneBit == {BIT(n) : n \in 0..27}

\* (kHeld & mask) != 0, kHeld being the set of the one-bit words whose bit
\* is set in the held-buttons word: a one-bit mask is tested by membership,
\* any other mask bit by bit
And(kHeld, mask) ==
    IF mask \in OneBit THEN mask \in kHeld
    ELSE \E b \in kHeld : (mask \div b) % 2 = 1

Vector2(x, y) == [x |-> x, y |-> y]

Size(w, h) == [width |-> w, height |-> h]

----------------------------------------------------------------------------
(* Enumerations of libnx and raylib that the file uses                     *)

HidNpadButton_A == BIT(0)
HidNpadButton_B == BIT(1)
HidNpadButton_X == BIT(2)
HidNpadButton_Y == BIT(3)
HidNpadButton_StickL == BIT(4)
HidNpadButton_StickR == BIT(5)
HidNpadButton_L == BIT(6)
HidNpadButton_R == BIT(7)
HidNpadButton_ZL == BIT(8)
HidNpadButton_ZR == BIT(9)
HidNpadButton_Plus == BIT(10)
HidNpadButton_Minus == BIT(11)
HidNpadButton_Left == BIT(12)
HidNpadButton_Up == BIT(13)
HidNpadButton_Right == BIT(14)
HidNpadButton_Down == BIT(15)
HidNpadButton_StickLLeft == BIT(16)
HidNpadButton_StickLUp == BIT(17)
HidNpadButton_StickLRight == BIT(18)
HidNpadButton_StickLDown == BIT(19)

\* the bits of a held-buttons word the model draws from: A .. StickLDown
HidBits == {BIT(n) : n \in 0..19}

GAMEPAD_BUTTON_LEFT_FACE_UP == 1
GAMEPAD_BUTTON_LEFT_FACE_RIGHT == 2
GAMEPAD_BUTTON_LEFT_FACE_DOWN == 3
GAMEPAD_BUTTON_LEFT_FACE_LEFT == 4
GAMEPAD_BUTTON_RIGHT_FACE_UP == 5
GAMEPAD_BUTTON_RIGHT_FACE_RIGHT == 6
GAMEPAD_BUTTON_RIGHT_FACE_DOWN == 7
GAMEPAD_BUTTON_RIGHT_FACE_LEFT == 8
GAMEPAD_BUTTON_LEFT_TRIGGER_1 == 9
GAMEPAD_BUTTON_LEFT_TRIGGER_2 == 10
GAMEPAD_BUTTON_RIGHT_TRIGGER_1 == 11
GAMEPAD_BUTTON_RIGHT_TRIGGER_2 == 12
GAMEPAD_BUTTON_MIDDLE_LEFT == 13
GAMEPAD_BUTTON_MIDDLE_RIGHT == 15
GAMEPAD_BUTTON_LEFT_THUMB == 16
GAMEPAD_BUTTON_RIGHT_THUMB == 17

MAX_GAMEPAD_BUTTONS == 32

GAMEPAD_AXIS_LEFT_X == 0
GAMEPAD_AXIS_LEFT_Y == 1
GAMEPAD_AXIS_RIGHT_X == 2
GAMEPAD_AXIS_RIGHT_Y == 3
GAMEPAD_AXIS_LEFT_TRIGGER == 4
GAMEPAD_AXIS_RIGHT_TRIGGER == 5

MOUSE_BUTTON_LEFT == 0
MOUSE_BUTTON_RIGHT == 1
MOUSE_BUTTON_MIDDLE == 2

KEY_SPACE == 32
KEY_A == 65
KEY_D == 68
KEY_E == 69
KEY_F == 70
KEY_Q == 81
KEY_R == 82
KEY_S == 83
KEY_W == 87
KEY_ESCAPE == 256
KEY_ENTER == 257
KEY_RIGHT == 262
KEY_LEFT == 263
KEY_DOWN == 264
KEY_UP == 265
KEY_LEFT_SHIFT == 340

\* the largest raw stick reading of the console (JOYSTICK_MAX, 0x7FFF)
JOYSTICK_MAX == 32767

\* the null sentinels of EGL
EGL_NO_DISPLAY == 0
EGL_NO_SURFACE == 0
EGL_NO_CONTEXT == 0
\* the handle eglGetDisplay(EGL_DEFAULT_DISPLAY) gives when it succeeds
EGL_DEFAULT_DISPLAY_HANDLE == 1

\* C's false, true and NULL
false == 0
true == 1
NULL == 0

----------------------------------------------------------------------------
(* Index sets                                                              *)

Gamepads == 0..(MaxGamepads - 1)
GamepadButtons == 0..(MAX_GAMEPAD_BUTTONS - 1)
GamepadAxes == GAMEPAD_AXIS_LEFT_X..GAMEPAD_AXIS_RIGHT_TRIGGER
TouchPoints == 0..(MaxTouchPoints - 1)
MouseButtons == {MOUSE_BUTTON_LEFT, MOUSE_BUTTON_RIGHT, MOUSE_BUTTON_MIDDLE}

\* the entries of the key-state arrays the model keeps: every key the file
\* writes by name
Keys == {KEY_SPACE, KEY_A, KEY_D, KEY_E, KEY_F, KEY_Q, KEY_R, KEY_S, KEY_W,
         KEY_ESCAPE, KEY_ENTER, KEY_RIGHT, KEY_LEFT, KEY_DOWN, KEY_UP,
         KEY_LEFT_SHIFT}

----------------------------------------------------------------------------
(* Return values: kind says the C type, a and b hold the value (a bool as  *)
(* 0 or 1, a pointer as 0 for NULL, a string as its length, a Vector2 as   *)
(* its two fixed-point components, a double as fixed-point nanoseconds)    *)

Void == [kind |-> "void", a |-> 0, b |-> 0]
IntRet(n) == [kind |-> "int", a |-> n, b |-> 0]
BoolRet(f) == [kind |-> "bool", a |-> IF f THEN true ELSE false, b |-> 0]
PtrRet(q) == [kind |-> "pointer", a |-> q, b |-> 0]
StrRet(str) == [kind |-> "string", a |-> Len(str), b |-> 0]
Vec2Ret(v) == [kind |-> "Vector2", a |-> v.x, b |-> v.y]
DoubleRet(x) == [kind |-> "double", a |-> x, b |-> 0]

----------------------------------------------------------------------------
(* The state after program start: CORE and platform are zero-initialised   *)
(* statics (static PlatformData platform = { 0 }); the library sets the    *)
(* exit key and the mouse scale before it calls InitPlatform.              *)

\* HidNpadStyleTag values the model draws from; "None" is the zero word
StyleTags == {"None", "NpadFullKey", "NpadHandheld", "NpadJoyDual"}

ZeroCORE ==
    [Window |->
        [ready |-> FALSE, shouldClose |-> FALSE, fullscreen |-> FALSE,
         flags |-> {}, title |-> "",
         screen |-> Size(0, 0), display |-> Size(0, 0),
         render |-> Size(0, 0), currentFbo |-> Size(0, 0),
         screenMin |-> Size(0, 0), screenMax |-> Size(0, 0)],
     Storage |-> [basePath |-> ""],
     Time |-> [base |-> 0],
     Input |->
        [Keyboard |->
            [exitKey |-> KEY_ESCAPE,
             currentKeyState |-> [k \in Keys |-> 0],
             previousKeyState |-> [k \in Keys |-> 0],
             keyRepeatInFrame |-> [k \in Keys |-> 0],
             keyPressedQueueCount |-> 0,
             charPressedQueueCount |-> 0],
         Mouse |->
            [currentPosition |-> Vector2(0, 0),
             previousPosition |-> Vector2(0, 0),
             scale |-> Vector2(ToFloat(1), ToFloat(1)),
             cursorHidden |-> FALSE,
             currentButtonState |-> [b \in MouseButtons |-> 0],
             previousButtonState |-> [b \in MouseButtons |-> 0],
             currentWheelMove |-> Vector2(0, 0),
             previousWheelMove |-> Vector2(0, 0)],
         Touch |->
            [pointCount |-> 0,
             pointId |-> [t \in TouchPoints |-> 0],
             position |-> [t \in TouchPoints |-> Vector2(0, 0)],
             currentTouchState |-> [t \in TouchPoints |-> 0],
             previousTouchState |-> [t \in TouchPoints |-> 0]],
         Gamepad |->
            [lastButtonPressed |-> 0,
             axisCount |-> [i \in Gamepads |-> 0],
             ready |-> [i \in Gamepads |-> FALSE],
             name |-> [i \in Gamepads |-> ""],
             currentButtonState |-> [i \in Gamepads |-> [k \in GamepadButtons |-> 0]],
             previousButtonState |-> [i \in Gamepads |-> [k \in GamepadButtons |-> 0]],
             axisState |-> [i \in Gamepads |-> [a \in GamepadAxes |-> 0]]]]]

ZeroPlatform ==
    [gbmSurface |-> NULL,
     touchDeltaTime |-> [t \in TouchPoints |-> 0],
     prevTouchCount |-> 0,
     nxPadStyle |-> [i \in Gamepads |-> "None"],
     device |-> EGL_NO_DISPLAY,
     surface |-> EGL_NO_SURFACE,
     context |-> EGL_NO_CONTEXT,
     config |-> 0,
     \* set when a write went past the end of one of the touch arrays
     outOfBounds |-> FALSE]

\* the EGL side at program start. live holds what has to be released: the
\* display connection once eglInitialize succeeded, and the contexts and
\* surfaces created and not yet destroyed; doubleFree records that a handle
\* was destroyed while it was not live
ZeroEgl ==
    [live |-> {}, next |-> EGL_DEFAULT_DISPLAY_HANDLE + 1, doubleFree |-> FALSE]

NoTime ==
    [valid |-> FALSE, clock |-> 0, base |-> 0, result |-> 0,
     earlier |-> FALSE, earlierBase |-> 0, earlierResult |-> 0]

----------------------------------------------------------------------------
(* Native EGL calls, as far as the file depends on them                    *)

\* eglDestroySurface / eglDestroyContext: the handle stops being live
eglDestroy(E, h) ==
    [E EXCEPT !.live = @ \ {h}, !.doubleFree = @ \/ (h \notin E.live)]

\* eglTerminate: releases the display connection and every resource of it
eglTerminate(E, dpy) == [E EXCEPT !.live = {}]

\* what the native calls of one InitPlatform run answer
InitAnswers ==
    [display : BOOLEAN, initialize : BOOLEAN, context : BOOLEAN,
     surface : BOOLEAN, makeCurrent : BOOLEAN,
     styles : [Gamepads -> StyleTags \ {"None"}]]

----------------------------------------------------------------------------
(* Gamepad names                                                           *)

GetNxGamePadName(P, gamepad) ==
    CASE P.nxPadStyle[gamepad] = "NpadFullKey" -> "Nintendo Switch Pro Controller"
      [] P.nxPadStyle[gamepad] = "NpadHandheld" -> "Handheld Joy-Con controller"
      [] P.nxPadStyle[gamepad] = "NpadJoyDual" -> "Dual Joy-Con controller"
      [] P.nxPadStyle[gamepad] = "NpadJoyLeft" -> "Single Joy-Con left controller"
      [] P.nxPadStyle[gamepad] = "NpadJoyRight" -> "Single Joy-Con right controller"
      [] P.nxPadStyle[gamepad] = "NpadGc" -> "GameCube controller"
      [] P.nxPadStyle[gamepad] = "NpadPalma" -> "Poke Ball Plus controller"
      [] P.nxPadStyle[gamepad] = "NpadLark" -> "NES/Famicom controller"
      [] P.nxPadStyle[gamepad] = "NpadHandheldLark" -> "Handheld NES/Famicom controller"
      [] P.nxPadStyle[gamepad] = "NpadLucia" -> "SNES controller"
      [] P.nxPadStyle[gamepad] = "NpadLagon" -> "N64 controller"
      [] P.nxPadStyle[gamepad] = "NpadLager" -> "Sega Genesis controller"
      [] P.nxPadStyle[gamepad] = "NpadSystemExt" -> "Generic external controller"
      [] OTHER -> "Generic controller"

----------------------------------------------------------------------------
(* InitPlatform                                                            *)

\* InitTimer() of the library: stores the current clock reading as the base
InitTimer(C, clk) == [C EXCEPT !.Time.base = clk]

\* a variant of the first statements that marks the window ready at once,
\* before any native call has answered
InitPlatformScreenReady(C) ==
    [C EXCEPT !.Window.screen = Size(1280, 720),
              !.Window.display = Size(1280, 720),
              !.Window.fullscreen = TRUE,
              !.Window.flags = @ \cup {"FLAG_FULLSCREEN_MODE"},
              !.Window.ready = TRUE]

\* the first statements: the fixed screen and display size, fullscreen
InitPlatformScreen(C) ==
    LET C1 == [C EXCEPT !.Window.screen = Size(1280, 720)]
    IN [C1 EXCEPT !.Window.display = Size(C1.Window.screen.width, C1.Window.screen.height),
                  !.Window.fullscreen = TRUE,
                  !.Window.flags = @ \cup {"FLAG_FULLSCREEN_MODE"}]

\* what the branch taken when eglMakeCurrent succeeds, and the lines after
\* it, store: ready and the render / framebuffer size
InitPlatformReady(C) ==
    LET C1 == [C EXCEPT !.Window.ready = TRUE]
        C2 == [C1 EXCEPT !.Window.render = Size(C1.Window.screen.width, C1.Window.screen.height)]
    IN [C2 EXCEPT !.Window.currentFbo = Size(C2.Window.render.width, C2.Window.render.height)]

\* the gamepad loop at the end of InitPlatform
RECURSIVE InitPlatformPads(_, _, _, _)
InitPlatformPads(C, P, i, styles) ==
    IF i >= MaxGamepads THEN [CORE |-> C, platform |-> P]
    ELSE LET P1 == [P EXCEPT !.nxPadStyle[i] = styles[i]]
             C1 == [C EXCEPT !.Input.Gamepad.name[i] = GetNxGamePadName(P1, i)]
         IN InitPlatformPads(C1, P1, i + 1, styles)

\* the value returned when the display cannot be obtained or initialised
InitPlatformDisplayFailure == false

\* the value returned when the context cannot be created or made current
InitPlatformContextFailure == -1

\* the whole function: the state it leaves, what it returns and the calls
\* it issues, given the answers of the native calls
InitPlatformRun(C, P, E, clk, in) ==
    LET C0 == InitPlatformScreen(C)
        dpy == IF in.display THEN EGL_DEFAULT_DISPLAY_HANDLE ELSE EGL_NO_DISPLAY
        P1 == [P EXCEPT !.device = dpy]
        c1 == <<"romfsInit", "eglGetDisplay">>
    IN
    IF P1.device = EGL_NO_DISPLAY THEN
        [CORE |-> C0, platform |-> P1, egl |-> E,
         ret |-> IntRet(InitPlatformDisplayFailure),
         calls |-> c1 \o <<"TRACELOG(LOG_WARNING)">>]
    ELSE IF ~in.initialize THEN
        [CORE |-> C0, platform |-> P1, egl |-> E,
         ret |-> IntRet(InitPlatformDisplayFailure),
         calls |-> c1 \o <<"eglInitialize", "TRACELOG(LOG_WARNING)">>]
    ELSE
    LET E1 == [E EXCEPT !.live = @ \cup {dpy}]
        ctx == IF in.context THEN E1.next ELSE EGL_NO_CONTEXT
        P2 == [P1 EXCEPT !.config = 1, !.context = ctx]
        E2 == IF in.context
              THEN [E1 EXCEPT !.live = @ \cup {ctx}, !.next = @ + 1] ELSE E1
        c2 == c1 \o <<"eglInitialize", "eglChooseConfig", "eglBindAPI", "eglCreateContext">>
    IN
    IF P2.context = EGL_NO_CONTEXT THEN
        [CORE |-> C0, platform |-> P2, egl |-> E2,
         ret |-> IntRet(InitPlatformContextFailure),
         calls |-> c2 \o <<"TRACELOG(LOG_WARNING)">>]
    ELSE
    LET srf == IF in.surface THEN E2.next ELSE EGL_NO_SURFACE
        P3 == [P2 EXCEPT !.gbmSurface = 1, !.surface = srf]
        E3 == IF in.surface
              THEN [E2 EXCEPT !.live = @ \cup {srf}, !.next = @ + 1] ELSE E2
        c3 == c2 \o <<"nwindowGetDefault", "eglCreateWindowSurface",
                      "eglSwapInterval", "eglMakeCurrent">>
    IN
    IF ~in.makeCurrent THEN
        [CORE |-> C0, platform |-> P3, egl |-> E3,
         ret |-> IntRet(InitPlatformContextFailure),
         calls |-> c3 \o <<"TRACELOG(LOG_FATAL)">>]
    ELSE
    LET C1 == InitPlatformReady(C0)
        pads == InitPlatformPads(C1, P3, 0, in.styles)
        C2 == InitTimer(pads.CORE, clk)
        C3 == [C2 EXCEPT !.Storage.basePath = "GetWorkingDirectory"]
    IN  [CORE |-> C3, platform |-> pads.platform, egl |-> E3,
         ret |-> IntRet(0),
         calls |-> c3 \o <<"TRACELOG(LOG_INFO)", "rlLoadExtensions", "padConfigureInput",
                           "padInitialize", "hidInitializeTouchScreen", "InitTimer",
                           "GetWorkingDirectory", "TRACELOG(LOG_INFO)">>]

InitPlatform(in) ==
    /\ egl.next + 2 <= MaxHandles + EGL_DEFAULT_DISPLAY_HANDLE + 1
    /\ \E r \in {InitPlatformRun(CORE, platform, egl, clock, in)} :
          /\ CORE' = r.CORE
          /\ platform' = r.platform
          /\ egl' = r.egl
          /\ ret' = r.ret
          /\ calls' = r.calls
    /\ lastOp' = "InitPlatform"
    /\ UNCHANGED <<clock, NX_DISABLE_GAMEPAD_EMULATION, frames, sampled, lastTime>>

----------------------------------------------------------------------------
(* ClosePlatform                                                           *)

ClosePlatformRun(P, E) ==
    IF P.device # EGL_NO_DISPLAY THEN
        LET hasS == P.surface # EGL_NO_SURFACE
            E1 == IF hasS THEN eglDestroy(E, P.surface) ELSE E
            P1 == IF hasS THEN [P EXCEPT !.surface = EGL_NO_SURFACE] ELSE P
            hasC == P1.context # EGL_NO_CONTEXT
            E2 == IF hasC THEN eglDestroy(E1, P1.context) ELSE E1
            P2 == IF hasC THEN [P1 EXCEPT !.context = EGL_NO_CONTEXT] ELSE P1
        IN [platform |-> [P2 EXCEPT !.device = EGL_NO_DISPLAY],
            egl |-> eglTerminate(E2, P2.device),
            calls |-> <<"eglMakeCurrent">>
                      \o (IF hasS THEN <<"eglDestroySurface">> ELSE <<>>)
                      \o (IF hasC THEN <<"eglDestroyContext">> ELSE <<>>)
                      \o <<"eglTerminate", "romfsExit">>]
    ELSE [platform |-> P, egl |-> E, calls |-> <<"romfsExit">>]

ClosePlatform ==
    /\ \E r \in {ClosePlatformRun(platform, egl)} :
          /\ platform' = r.platform
          /\ egl' = r.egl
          /\ calls' = r.calls
    /\ ret' = Void
    /\ lastOp' = "ClosePlatform"
    /\ UNCHANGED <<CORE, clock, NX_DISABLE_GAMEPAD_EMULATION, frames, sampled, lastTime>>

----------------------------------------------------------------------------
(* SwapScreenBuffer, WindowShouldClose                                     *)

SwapScreenBuffer ==
    /\ calls' = <<"eglSwapBuffers">>
    /\ ret' = Void
    /\ lastOp' = "SwapScreenBuffer"
    /\ UNCHANGED <<CORE, platform, egl, clock, NX_DISABLE_GAMEPAD_EMULATION,
                   frames, sampled, lastTime>>

\* a variant that answers with the close request whether or not the window
\* is ready: the close-query property must reject it
WindowShouldCloseResultUnready(C, appletMainLoop) ==
    IF ~appletMainLoop THEN TRUE
    ELSE C.Window.shouldClose

\* appletMainLoop is the console's answer: FALSE once the applet must exit
WindowShouldCloseResult(C, appletMainLoop) ==
    IF ~appletMainLoop THEN TRUE
    ELSE IF C.Window.ready THEN C.Window.shouldClose
    ELSE TRUE

WindowShouldClose(appletMainLoop) ==
    /\ ret' = BoolRet(WindowShouldCloseResult(CORE, appletMainLoop))
    /\ calls' = <<IF appletMainLoop THEN "appletMainLoop:true" ELSE "appletMainLoop:false">>
    /\ lastOp' = "WindowShouldClose"
    /\ UNCHANGED <<CORE, platform, egl, clock, NX_DISABLE_GAMEPAD_EMULATION,
                   frames, sampled, lastTime>>

----------------------------------------------------------------------------
(* Functions that are not available on the platform: each logs a warning   *)
(* and returns a fixed value                                               *)

UnsupportedVoid ==
    {"ToggleFullscreen", "ToggleBorderlessWindowed", "MaximizeWindow",
     "MinimizeWindow", "RestoreWindow", "SetWindowState", "ClearWindowState",
     "SetWindowIcon", "SetWindowIcons", "SetWindowPosition", "SetWindowMonitor",
     "SetWindowSize", "SetWindowOpacity", "SetWindowFocused", "SetClipboardText",
     "SetMouseCursor"}

UnsupportedValue ==
    {"GetWindowHandle", "GetMonitorCount", "GetCurrentMonitor",
     "GetMonitorPosition", "GetMonitorWidth", "GetMonitorHeight",
     "GetMonitorPhysicalWidth", "GetMonitorPhysicalHeight",
     "GetMonitorRefreshRate", "GetMonitorName", "GetWindowPosition",
     "GetWindowScaleDPI", "GetClipboardText", "SetGamepadMappings"}

UnsupportedFunctions == UnsupportedVoid \cup UnsupportedValue

\* the return statement of each
UnsupportedReturn(fn) ==
    CASE fn \in UnsupportedVoid -> Void
      [] fn = "GetWindowHandle" -> PtrRet(NULL)
      [] fn = "GetMonitorCount" -> IntRet(1)
      [] fn = "GetCurrentMonitor" -> IntRet(0)
      [] fn = "GetMonitorPosition" -> Vec2Ret(Vector2(0, 0))
      [] fn = "GetMonitorWidth" -> IntRet(0)
      [] fn = "GetMonitorHeight" -> IntRet(0)
      [] fn = "GetMonitorPhysicalWidth" -> IntRet(0)
      [] fn = "GetMonitorPhysicalHeight" -> IntRet(0)
      [] fn = "GetMonitorRefreshRate" -> IntRet(0)
      [] fn = "GetMonitorName" -> StrRet("")
      [] fn = "GetWindowPosition" -> Vec2Ret(Vector2(0, 0))
      [] fn = "GetWindowScaleDPI" -> Vec2Ret(Vector2(ToFloat(1), ToFloat(1)))
      [] fn = "GetClipboardText" -> PtrRet(NULL)
      [] fn = "SetGamepadMappings" -> IntRet(0)

\* a variant in which ToggleFullscreen does toggle the shared fullscreen flag,
\* as it does on the desktop platforms: the frame property must reject it
UnsupportedEffectToggles(fn, C, P) ==
    [CORE |-> IF fn = "ToggleFullscreen"
              THEN [C EXCEPT !.Window.fullscreen = ~@] ELSE C,
     platform |-> P]

\* what each does to the shared state and to the platform data: nothing
UnsupportedEffect(fn, C, P) == [CORE |-> C, platform |-> P]

Unsupported(fn) ==
    /\ \E r \in {UnsupportedEffect(fn, CORE, platform)} :
          /\ CORE' = r.CORE
          /\ platform' = r.platform
    /\ ret' = UnsupportedReturn(fn)
    /\ calls' = <<"TRACELOG(LOG_WARNING)">>
    /\ lastOp' = fn
    /\ UNCHANGED <<egl, clock, NX_DISABLE_GAMEPAD_EMULATION, frames, sampled, lastTime>>

----------------------------------------------------------------------------
(* Window and cursor setters that the platform does implement              *)

SetWindowTitle(title) ==
    /\ CORE' = [CORE EXCEPT !.Window.title = title]
    /\ ret' = Void
    /\ calls' = <<>>
    /\ lastOp' = "SetWindowTitle"
    /\ UNCHANGED <<platform, egl, clock, NX_DISABLE_GAMEPAD_EMULATION, frames, sampled, lastTime>>

SetWindowMinSize(width, height) ==
    /\ CORE' = [CORE EXCEPT !.Window.screenMin = Size(width, height)]
    /\ ret' = Void
    /\ calls' = <<>>
    /\ lastOp' = "SetWindowMinSize"
    /\ UNCHANGED <<platform, egl, clock, NX_DISABLE_GAMEPAD_EMULATION, frames, sampled, lastTime>>

SetWindowMaxSize(width, height) ==
    /\ CORE' = [CORE EXCEPT !.Window.screenMax = Size(width, height)]
    /\ ret' = Void
    /\ calls' = <<>>
    /\ lastOp' = "SetWindowMaxSize"
    /\ UNCHANGED <<platform, egl, clock, NX_DISABLE_GAMEPAD_EMULATION, frames, sampled, lastTime>>

\* SetMousePosition on the shared state
SetMousePositionRun(C, x, y) ==
    LET C1 == [C EXCEPT !.Input.Mouse.currentPosition = Vector2(ToFloat(x), ToFloat(y))]
    IN [C1 EXCEPT !.Input.Mouse.previousPosition = C1.Input.Mouse.currentPosition]

SetMousePosition(x, y) ==
    /\ CORE' = SetMousePositionRun(CORE, x, y)
    /\ ret' = Void
    /\ calls' = <<>>
    /\ lastOp' = "SetMousePosition"
    /\ UNCHANGED <<platform, egl, clock, NX_DISABLE_GAMEPAD_EMULATION, frames, sampled, lastTime>>

ShowCursor ==
    /\ CORE' = [CORE EXCEPT !.Input.Mouse.cursorHidden = FALSE]
    /\ ret' = Void
    /\ calls' = <<>>
    /\ lastOp' = "ShowCursor"
    /\ UNCHANGED <<platform, egl, clock, NX_DISABLE_GAMEPAD_EMULATION, frames, sampled, lastTime>>

HideCursor ==
    /\ CORE' = [CORE EXCEPT !.Input.Mouse.cursorHidden = TRUE]
    /\ ret' = Void
    /\ calls' = <<>>
    /\ lastOp' = "HideCursor"
    /\ UNCHANGED <<platform, egl, clock, NX_DISABLE_GAMEPAD_EMULATION, frames, sampled, lastTime>>

EnableCursor ==
    /\ CORE' = [SetMousePositionRun(CORE, CDiv(CORE.Window.screen.width, 2),
                                          CDiv(CORE.Window.screen.height, 2))
                  EXCEPT !.Input.Mouse.cursorHidden = FALSE]
    /\ ret' = Void
    /\ calls' = <<>>
    /\ lastOp' = "EnableCursor"
    /\ UNCHANGED <<platform, egl, clock, NX_DISABLE_GAMEPAD_EMULATION, frames, sampled, lastTime>>

DisableCursor ==
    /\ CORE' = [SetMousePositionRun(CORE, CDiv(CORE.Window.screen.width, 2),
                                          CDiv(CORE.Window.screen.height, 2))
                  EXCEPT !.Input.Mouse.cursorHidden = TRUE]
    /\ ret' = Void
    /\ calls' = <<>>
    /\ lastOp' = "DisableCursor"
    /\ UNCHANGED <<platform, egl, clock, NX_DISABLE_GAMEPAD_EMULATION, frames, sampled, lastTime>>

\* OpenURL: warns about a quote in the URL, and does nothing otherwise
OpenURL(hasQuote) ==
    /\ calls' = IF hasQuote THEN <<"strchr", "TRACELOG(LOG_WARNING)">> ELSE <<"strchr">>
    /\ ret' = Void
    /\ lastOp' = "OpenURL"
    /\ UNCHANGED <<CORE, platform, egl, clock, NX_DISABLE_GAMEPAD_EMULATION,
                   frames, sampled, lastTime>>

----------------------------------------------------------------------------
(* GetTime                                                                 *)

\* width of unsigned long long int in the model
ULongLongBits == 16

\* a - b in unsigned long long int
ULongLongSub(a, b) == (a - b) % (2^ULongLongBits)

\* a variant with the operands of the subtraction exchanged: the elapsed-time
\* property must reject it
GetTimeResultSwapped(C, nanoSeconds) == ULongLongSub(C.Time.base, nanoSeconds)

\* the elapsed time: (double)(nanoSeconds - CORE.Time.base)*1e-9, kept in
\* nanoseconds (fixed-point seconds, unit 1e-9)
GetTimeResult(C, nanoSeconds) == ULongLongSub(nanoSeconds, C.Time.base)

\* what GetTime leaves of the shared state
GetTimeEffect(C) == C

GetTime ==
    /\ CORE' = GetTimeEffect(CORE)
    /\ ret' = DoubleRet(GetTimeResult(CORE, clock))
    /\ lastTime' = [valid |-> TRUE, clock |-> clock, base |-> CORE.Time.base,
                    result |-> GetTimeResult(CORE, clock),
                    earlier |-> lastTime.valid,
                    earlierBase |-> lastTime.base,
                    earlierResult |-> lastTime.result]
    /\ calls' = <<"clock_gettime">>
    /\ lastOp' = "GetTime"
    /\ UNCHANGED <<platform, egl, clock, NX_DISABLE_GAMEPAD_EMULATION, frames, sampled>>

\* time passes: the monotonic clock advances
Tick(d) ==
    /\ clock + d <= MaxClock
    /\ clock' = clock + d
    /\ lastOp' = "tick"
    /\ UNCHANGED <<CORE, platform, egl, NX_DISABLE_GAMEPAD_EMULATION, ret,
                   calls, frames, sampled, lastTime>>

----------------------------------------------------------------------------
(* PollInputEvents                                                         *)

\* the array bound of the loop that registers the previous key states
PreviousKeysLoopEnd == 260

\* a variant of the switch with the X and Y cases exchanged (the two pads
\* label them the other way round): the table property must reject it
ButtonSwitchXY(k) ==
    CASE k = GAMEPAD_BUTTON_LEFT_FACE_UP -> HidNpadButton_Up
      [] k = GAMEPAD_BUTTON_LEFT_FACE_RIGHT -> HidNpadButton_Right
      [] k = GAMEPAD_BUTTON_LEFT_FACE_DOWN -> HidNpadButton_Down
      [] k = GAMEPAD_BUTTON_LEFT_FACE_LEFT -> HidNpadButton_Left
      [] k = GAMEPAD_BUTTON_RIGHT_FACE_UP -> HidNpadButton_Y
      [] k = GAMEPAD_BUTTON_RIGHT_FACE_RIGHT -> HidNpadButton_A
      [] k = GAMEPAD_BUTTON_RIGHT_FACE_DOWN -> HidNpadButton_B
      [] k = GAMEPAD_BUTTON_RIGHT_FACE_LEFT -> HidNpadButton_X
      [] k = GAMEPAD_BUTTON_LEFT_TRIGGER_1 -> HidNpadButton_L
      [] k = GAMEPAD_BUTTON_LEFT_TRIGGER_2 -> HidNpadButton_ZL
      [] k = GAMEPAD_BUTTON_RIGHT_TRIGGER_1 -> HidNpadButton_R
      [] k = GAMEPAD_BUTTON_RIGHT_TRIGGER_2 -> HidNpadButton_ZR
      [] k = GAMEPAD_BUTTON_MIDDLE_LEFT -> HidNpadButton_Minus
      [] k = GAMEPAD_BUTTON_MIDDLE_RIGHT -> HidNpadButton_Plus
      [] k = GAMEPAD_BUTTON_LEFT_THUMB -> HidNpadButton_StickL
      [] k = GAMEPAD_BUTTON_RIGHT_THUMB -> HidNpadButton_StickR
      [] OTHER -> 0

\* the switch of the button loop: the console button of logical button k,
\* 0 when the switch has no case for k
ButtonSwitch(k) ==
    CASE k = GAMEPAD_BUTTON_LEFT_FACE_UP -> HidNpadButton_Up
      [] k = GAMEPAD_BUTTON_LEFT_FACE_RIGHT -> HidNpadButton_Right
      [] k = GAMEPAD_BUTTON_LEFT_FACE_DOWN -> HidNpadButton_Down
      [] k = GAMEPAD_BUTTON_LEFT_FACE_LEFT -> HidNpadButton_Left
      [] k = GAMEPAD_BUTTON_RIGHT_FACE_UP -> HidNpadButton_X
      [] k = GAMEPAD_BUTTON_RIGHT_FACE_RIGHT -> HidNpadButton_A
      [] k = GAMEPAD_BUTTON_RIGHT_FACE_DOWN -> HidNpadButton_B
      [] k = GAMEPAD_BUTTON_RIGHT_FACE_LEFT -> HidNpadButton_Y
      [] k = GAMEPAD_BUTTON_LEFT_TRIGGER_1 -> HidNpadButton_L
      [] k = GAMEPAD_BUTTON_LEFT_TRIGGER_2 -> HidNpadButton_ZL
      [] k = GAMEPAD_BUTTON_RIGHT_TRIGGER_1 -> HidNpadButton_R
      [] k = GAMEPAD_BUTTON_RIGHT_TRIGGER_2 -> HidNpadButton_ZR
      [] k = GAMEPAD_BUTTON_MIDDLE_LEFT -> HidNpadButton_Minus
      [] k = GAMEPAD_BUTTON_MIDDLE_RIGHT -> HidNpadButton_Plus
      [] k = GAMEPAD_BUTTON_LEFT_THUMB -> HidNpadButton_StickL
      [] k = GAMEPAD_BUTTON_RIGHT_THUMB -> HidNpadButton_StickR
      [] OTHER -> 0

\* the switch, tabulated
ButtonTable == [k \in GamepadButtons |-> ButtonSwitch(k)]

\* lastButtonPressed through the button loop, from logical button k on
RECURSIVE LastButtonLoop(_, _, _)
LastButtonLoop(lastButtonPressed, k, kHeld) ==
    IF k >= MAX_GAMEPAD_BUTTONS THEN lastButtonPressed
    ELSE LastButtonLoop(IF And(kHeld, ButtonTable[k]) THEN k ELSE lastButtonPressed,
                        k + 1, kHeld)

\* the button loop of gamepad i; G is CORE.Input.Gamepad. Round k reads and
\* writes entry k of the two arrays only
ButtonLoop(G, i, kHeld) ==
    [G EXCEPT !.previousButtonState[i] = G.currentButtonState[i],
              !.currentButtonState[i] =
                  [k \in GamepadButtons |->
                      IF And(kHeld, ButtonTable[k]) THEN 1 ELSE 0],
              !.lastButtonPressed = LastButtonLoop(G.lastButtonPressed, 0, kHeld)]

\* a variant that normalises by half the range of a stick: the axis-range
\* property must reject it
StickAxisHalfRange(raw) == FloatDiv(ToFloat(raw), ToFloat(16384))

\* raw stick reading to axis value: (float)raw / 32767.0f
StickAxis(raw) == FloatDiv(ToFloat(raw), ToFloat(32767))

\* trigger axis value of a held-buttons word
TriggerAxis(kHeld, button) == IF And(kHeld, button) THEN ToFloat(1) ELSE ToFloat(0)

\* the analog sticks and triggers of gamepad i
AxisUpdate(G, i, kHeld, kAxisL, kAxisR) ==
    [G EXCEPT !.axisState[i] =
        [a \in GamepadAxes |->
            CASE a = GAMEPAD_AXIS_LEFT_X -> StickAxis(kAxisL.x)
              [] a = GAMEPAD_AXIS_LEFT_Y -> StickAxis(kAxisL.y)
              [] a = GAMEPAD_AXIS_RIGHT_X -> StickAxis(kAxisR.x)
              [] a = GAMEPAD_AXIS_RIGHT_Y -> StickAxis(kAxisR.y)
              [] a = GAMEPAD_AXIS_LEFT_TRIGGER -> TriggerAxis(kHeld, HidNpadButton_ZL)
              [] a = GAMEPAD_AXIS_RIGHT_TRIGGER -> TriggerAxis(kHeld, HidNpadButton_ZR)]]

\* previousKeyState[key] = currentKeyState[key]; currentKeyState[key] = down
EmulateKey(K, key, down) ==
    [K EXCEPT !.previousKeyState[key] = K.currentKeyState[key],
              !.currentKeyState[key] = IF down THEN 1 ELSE 0]

\* a variant of the Plus / Minus block without the nesting: ENTER and SPACE
\* follow Plus and Minus also when both are held
EmulatePlusMinusFlat(K, kHeld) ==
    LET K9 == [K EXCEPT !.previousKeyState[KEY_ENTER] = K.currentKeyState[KEY_ENTER],
                        !.previousKeyState[KEY_SPACE] = K.currentKeyState[KEY_SPACE],
                        !.previousKeyState[KEY_ESCAPE] = K.currentKeyState[KEY_ESCAPE]]
        K10 == IF And(kHeld, HidNpadButton_Plus) /\ And(kHeld, HidNpadButton_Minus)
               THEN [K9 EXCEPT !.currentKeyState[KEY_ESCAPE] = 1]
               ELSE K9
    IN [K10 EXCEPT !.currentKeyState[KEY_ENTER] =
                       IF And(kHeld, HidNpadButton_Plus) THEN 1 ELSE 0,
                   !.currentKeyState[KEY_SPACE] =
                       IF And(kHeld, HidNpadButton_Minus) THEN 1 ELSE 0]

\* the Plus / Minus block: ENTER, SPACE and, with both held, ESCAPE
EmulatePlusMinus(K, kHeld) ==
    LET K9 == [K EXCEPT !.previousKeyState[KEY_ENTER] = K.currentKeyState[KEY_ENTER],
                        !.previousKeyState[KEY_SPACE] = K.currentKeyState[KEY_SPACE],
                        !.previousKeyState[KEY_ESCAPE] = K.currentKeyState[KEY_ESCAPE]]
    IN IF And(kHeld, HidNpadButton_Plus) /\ And(kHeld, HidNpadButton_Minus)
       THEN [K9 EXCEPT !.currentKeyState[KEY_ENTER] = 0,
                       !.currentKeyState[KEY_SPACE] = 0,
                       !.currentKeyState[KEY_ESCAPE] = 1]
       ELSE [K9 EXCEPT !.currentKeyState[KEY_ENTER] =
                            IF And(kHeld, HidNpadButton_Plus) THEN 1 ELSE 0,
                       !.currentKeyState[KEY_SPACE] =
                            IF And(kHeld, HidNpadButton_Minus) THEN 1 ELSE 0]

\* the emulated keys of one gamepad; K is CORE.Input.Keyboard
EmulateKeyboard(K, kHeld) ==
    LET right == And(kHeld, HidNpadButton_Right) \/ And(kHeld, HidNpadButton_StickLRight)
        left == And(kHeld, HidNpadButton_Left) \/ And(kHeld, HidNpadButton_StickLLeft)
        down == And(kHeld, HidNpadButton_Down) \/ And(kHeld, HidNpadButton_StickLDown)
        up == And(kHeld, HidNpadButton_Up) \/ And(kHeld, HidNpadButton_StickLUp)
        K1 == EmulateKey(EmulateKey(K, KEY_RIGHT, right), KEY_D, right)
        K2 == EmulateKey(EmulateKey(K1, KEY_LEFT, left), KEY_A, left)
        K3 == EmulateKey(EmulateKey(K2, KEY_DOWN, down), KEY_S, down)
        K4 == EmulateKey(EmulateKey(K3, KEY_UP, up), KEY_W, up)
        K5 == EmulateKey(K4, KEY_Q, And(kHeld, HidNpadButton_Y))
        K6 == EmulateKey(K5, KEY_E, And(kHeld, HidNpadButton_A))
        K7 == EmulateKey(K6, KEY_R, And(kHeld, HidNpadButton_X))
        K8 == EmulateKey(K7, KEY_F, And(kHeld, HidNpadButton_B))
        K10 == EmulatePlusMinus(K8, kHeld)
    IN EmulateKey(K10, KEY_LEFT_SHIFT, And(kHeld, GAMEPAD_BUTTON_LEFT_THUMB))

\* the emulated mouse buttons and wheel of one gamepad; M is CORE.Input.Mouse
EmulateMouseButtons(M, kHeld) ==
    LET M1 == [M EXCEPT !.previousButtonState[MOUSE_BUTTON_LEFT] =
                            M.currentButtonState[MOUSE_BUTTON_LEFT]]
        M2 == [M1 EXCEPT !.currentButtonState[MOUSE_BUTTON_RIGHT] =
                            IF And(kHeld, HidNpadButton_ZL) THEN 1 ELSE 0]
        M3 == [M2 EXCEPT !.previousButtonState[MOUSE_BUTTON_MIDDLE] =
                            M2.currentButtonState[MOUSE_BUTTON_MIDDLE]]
        M4 == [M3 EXCEPT !.currentButtonState[MOUSE_BUTTON_MIDDLE] =
                            IF And(kHeld, GAMEPAD_BUTTON_RIGHT_THUMB) THEN 1 ELSE 0]
        M5 == [M4 EXCEPT !.previousButtonState[MOUSE_BUTTON_RIGHT] =
                            M4.currentButtonState[MOUSE_BUTTON_RIGHT]]
        M6 == [M5 EXCEPT !.currentButtonState[MOUSE_BUTTON_LEFT] =
                            IF And(kHeld, HidNpadButton_ZR) THEN 1 ELSE 0]
        M7 == [M6 EXCEPT !.previousWheelMove = M6.currentWheelMove]
    IN [M7 EXCEPT !.currentWheelMove =
            IF And(kHeld, HidNpadButton_L) THEN Vector2(ToFloat(0), -ToFloat(1))
            ELSE IF And(kHeld, HidNpadButton_R) THEN Vector2(ToFloat(0), ToFloat(1))
            ELSE Vector2(ToFloat(0), ToFloat(0))]

\* a variant that clamps at zero only: the mouse-range property must reject it
ClampPositionLowerOnly(v, extent, scale) ==
    IF v < 0 THEN 0 ELSE v

\* clamp of one coordinate of the emulated mouse position
ClampPosition(v, extent, scale) ==
    IF v < 0 THEN 0
    ELSE IF v > FloatDiv(ToFloat(extent), scale) THEN FloatDiv(ToFloat(extent), scale)
    ELSE v

\* the emulated mouse position of one gamepad, axis being its axis values
EmulateMousePosition(M, axis, screen) ==
    LET M1 == [M EXCEPT !.previousPosition = Vector2(M.currentPosition.x, M.currentPosition.y)]
        x == M1.currentPosition.x + FloatMul(axis[GAMEPAD_AXIS_RIGHT_X], ToFloat(10))
        y == M1.currentPosition.y - FloatMul(axis[GAMEPAD_AXIS_RIGHT_Y], ToFloat(10))
    IN [M1 EXCEPT !.currentPosition =
            Vector2(ClampPosition(x, screen.width, M1.scale.x),
                    ClampPosition(y, screen.height, M1.scale.y))]

\* a variant in which the close request follows the exit key up and down: the
\* close-request property must reject it
GamepadEmulationFollowsKey(C, i, kHeld) ==
    LET K == EmulateKeyboard(C.Input.Keyboard, kHeld)
        M == EmulateMousePosition(EmulateMouseButtons(C.Input.Mouse, kHeld),
                                  C.Input.Gamepad.axisState[i], C.Window.screen)
    IN [C EXCEPT !.Input.Keyboard = K,
                 !.Input.Mouse = M,
                 !.Window.shouldClose = (K.currentKeyState[K.exitKey] = 1)]

\* the block under #if !defined(NX_DISABLE_GAMEPAD_EMULATION), for gamepad i
GamepadEmulation(C, i, kHeld) ==
    LET K == EmulateKeyboard(C.Input.Keyboard, kHeld)
        M == EmulateMousePosition(EmulateMouseButtons(C.Input.Mouse, kHeld),
                                  C.Input.Gamepad.axisState[i], C.Window.screen)
    IN [C EXCEPT !.Input.Keyboard = K,
                 !.Input.Mouse = M,
                 !.Window.shouldClose =
                     IF K.currentKeyState[K.exitKey] = 1 THEN TRUE ELSE @]

\* a variant in which the block is compiled whatever the flag: the build-flag
\* property must reject it
EmulationAlways(disabled) == TRUE

\* #if !defined(NX_DISABLE_GAMEPAD_EMULATION): whether the block is compiled
EmulationCompiled(disabled) == ~disabled

\* a variant that also releases the buttons of a gamepad that is not
\* connected: the absent-gamepad property must reject it
GamepadConnectionReleases(C, i, pad) ==
    [C EXCEPT !.Input.Gamepad.ready[i] = pad.connected,
              !.Input.Gamepad.currentButtonState[i] =
                  IF pad.connected THEN @ ELSE [k \in DOMAIN @ |-> 0]]

\* CORE.Input.Gamepad.ready[i] = padIsConnected(&platform.nxPad[i])
GamepadConnection(C, i, pad) ==
    [C EXCEPT !.Input.Gamepad.ready[i] = pad.connected]

\* one round of the gamepad loop: gamepad i, with the sample pad the console
\* reports for it
GamepadStep(C, P, disabled, i, pad) ==
    LET C1 == GamepadConnection(C, i, pad)
    IN
    IF ~C1.Input.Gamepad.ready[i] THEN [CORE |-> C1, platform |-> P]
    ELSE
    LET restyle == pad.style # P.nxPadStyle[i]
        P1 == IF restyle THEN [P EXCEPT !.nxPadStyle[i] = pad.style] ELSE P
        C2 == IF restyle
              THEN [C1 EXCEPT !.Input.Gamepad.name[i] = GetNxGamePadName(P1, i)]
              ELSE C1
        G3 == [C2.Input.Gamepad EXCEPT !.axisCount[i] = 6]
        G4 == ButtonLoop(G3, i, pad.kHeld)
        G5 == AxisUpdate(G4, i, pad.kHeld, pad.kAxisL, pad.kAxisR)
        C5 == [C2 EXCEPT !.Input.Gamepad = G5]
    IN [CORE |-> IF EmulationCompiled(disabled)
                 THEN GamepadEmulation(C5, i, pad.kHeld) ELSE C5,
        platform |-> P1]

RECURSIVE GamepadLoop(_, _, _, _, _)
GamepadLoop(C, P, disabled, i, pads) ==
    IF i >= MaxGamepads THEN [CORE |-> C, platform |-> P]
    ELSE LET r == GamepadStep(C, P, disabled, i, pads[i])
         IN GamepadLoop(r.CORE, r.platform, disabled, i + 1, pads)

\* the touch loop from touch i on; state is the sample of the touch screen.
\* A round with i past the end of the arrays stores out of bounds, which is
\* undefined: the stores land in memory that holds no modelled field
\* (state.overrun = "spare") or in a neighbouring field of the same struct
\* ("clobber": entry 0 of position takes the stored coordinates)
RECURSIVE TouchLoop(_, _, _, _)
TouchLoop(C, P, i, state) ==
    IF i >= state.count THEN [CORE |-> C, platform |-> P]
    ELSE IF i \in TouchPoints THEN
        TouchLoop([C EXCEPT !.Input.Touch.position[i] =
                                Vector2(ToFloat(state.touches[i + 1].x),
                                        ToFloat(state.touches[i + 1].y)),
                            !.Input.Touch.pointId[i] = state.touches[i + 1].finger_id],
                  [P EXCEPT !.touchDeltaTime[i] = state.touches[i + 1].delta_time],
                  i + 1, state)
    ELSE TouchLoop(IF state.overrun = "clobber"
                   THEN [C EXCEPT !.Input.Touch.position[0] =
                                     Vector2(ToFloat(state.touches[i + 1].x),
                                             ToFloat(state.touches[i + 1].y))]
                   ELSE C,
                   [P EXCEPT !.outOfBounds = TRUE], i + 1, state)

\* the touch-screen block; state.returned is what hidGetTouchScreenStates
\* answers
TouchUpdate(C, P, state) ==
    IF state.returned THEN
        LET P1 == IF state.count # P.prevTouchCount
                  THEN [P EXCEPT !.prevTouchCount = state.count] ELSE P
            r == TouchLoop(C, P1, 0, state)
        IN [CORE |-> [r.CORE EXCEPT !.Input.Touch.pointCount = state.count],
            platform |-> r.platform]
    ELSE [CORE |-> C, platform |-> P]

\* the statements before the touch-screen block: the per-frame resets and
\* the previous <- current copies of the touch and key states
FrameReset(C) ==
    [C EXCEPT !.Input.Keyboard.keyPressedQueueCount = 0,
              !.Input.Keyboard.charPressedQueueCount = 0,
              !.Input.Keyboard.keyRepeatInFrame = [k \in Keys |-> 0],
              !.Input.Gamepad.lastButtonPressed = 0,
              !.Input.Touch.previousTouchState = C.Input.Touch.currentTouchState,
              !.Input.Keyboard.previousKeyState =
                  [k \in Keys |-> IF k < PreviousKeysLoopEnd
                                  THEN C.Input.Keyboard.currentKeyState[k]
                                  ELSE C.Input.Keyboard.previousKeyState[k]]]

\* the whole function, given the samples of the touch screen and of every
\* gamepad
PollInputEventsRun(C, P, disabled, in) ==
    LET t == TouchUpdate(FrameReset(C), P, in.touch)
    IN GamepadLoop(t.CORE, t.platform, disabled, 0, in.pads)

PollInputEvents(in) ==
    /\ frames < MaxFrames
    /\ \E r \in {PollInputEventsRun(CORE, platform, NX_DISABLE_GAMEPAD_EMULATION, in)} :
          /\ CORE' = r.CORE
          /\ platform' = r.platform
    /\ frames' = frames + 1
    /\ sampled' = in
    /\ ret' = Void
    /\ calls' = <<"hidGetTouchScreenStates", "padUpdate">>
    /\ lastOp' = "PollInputEvents"
    /\ UNCHANGED <<egl, clock, NX_DISABLE_GAMEPAD_EMULATION, lastTime>>

----------------------------------------------------------------------------
(* Inputs the model draws from                                             *)

\* a gamepad slot with no controller connected
NoPad ==
    [connected |-> FALSE, style |-> "None", kHeld |-> {},
     kAxisL |-> Vector2(0, 0), kAxisR |-> Vector2(0, 0)]

\* a connected controller: its style, held buttons (the set bits of the
\* word) and raw stick readings
Pad(style, kHeld, lx, ly, rx, ry) ==
    [connected |-> TRUE, style |-> style, kHeld |-> kHeld,
     kAxisL |-> Vector2(lx, ly), kAxisR |-> Vector2(rx, ry)]

\* the held-buttons word with bit n set exactly when the number n + 1 has
\* binary digit j set: five words that tell any two buttons apart
HeldCode(j) == {BIT(n) : n \in {m \in 0..19 : ((m + 1) \div BIT(j)) % 2 = 1}}

\* samples of one controller that together hold every button, alone and in
\* the combinations the code tests, with the sticks at rest and at their ends
RichPadSamples ==
    {Pad("NpadFullKey", HeldCode(0), JOYSTICK_MAX, JOYSTICK_MAX, JOYSTICK_MAX, JOYSTICK_MAX),
     Pad("NpadFullKey", HeldCode(1), -JOYSTICK_MAX, -JOYSTICK_MAX, -JOYSTICK_MAX, -JOYSTICK_MAX),
     Pad("NpadHandheld", HeldCode(2), 16384, -1, 1, -16384),
     Pad("NpadFullKey", HeldCode(3), 0, JOYSTICK_MAX, -JOYSTICK_MAX, 0),
     Pad("NpadJoyDual", HeldCode(4), 0, 0, 0, 0),
     Pad("NpadFullKey", {HidNpadButton_Plus, HidNpadButton_Minus}, 0, 0, 0, 0),
     Pad("NpadFullKey", {HidNpadButton_ZL}, 0, 0, 0, 0),
     Pad("NpadFullKey", {HidNpadButton_ZR, HidNpadButton_L}, 0, 0, 0, 0),
     Pad("NpadFullKey", {HidNpadButton_R, HidNpadButton_StickR}, 0, 0, 0, 0),
     Pad("NpadFullKey", {HidNpadButton_StickL}, 0, 0, 0, 0),
     Pad("NpadFullKey", HidBits, 0, 0, JOYSTICK_MAX, -JOYSTICK_MAX)}

\* samples for frames in which several controllers are connected at once
FewPadSamples ==
    {NoPad,
     Pad("NpadFullKey", {}, 0, 0, 0, 0),
     Pad("NpadFullKey",
         {HidNpadButton_Right, HidNpadButton_ZL, HidNpadButton_Y,
          HidNpadButton_Plus, HidNpadButton_Minus},
         0, 0, JOYSTICK_MAX, JOYSTICK_MAX)}

\* hidGetTouchScreenStates returned no sample
NoTouchSample ==
    [returned |-> FALSE, count |-> 0, touches |-> <<>>, overrun |-> "spare"]

\* the number of touches one sample of the console can hold: more than the
\* MAX_TOUCH_POINTS entries of the library's arrays (16 against 8)
MaxTouchSamples == MaxTouchPoints + 1

\* touch n of a sample, in variation v
Touch(n, v) ==
    [x |-> 100 * (n + 1) + v, y |-> 50 * (n + 1) + v,
     finger_id |-> n + v, delta_time |-> 1 + v]

\* a returned sample of count touches
TouchSample(count, v, overrun) ==
    [returned |-> TRUE, count |-> count,
     touches |-> [n \in 1..count |-> Touch(n - 1, v)], overrun |-> overrun]

\* the samples of the touch screen the model draws from
TouchSamples ==
    {NoTouchSample}
    \cup {TouchSample(c, v, "spare") : c \in 0..MaxTouchSamples, v \in 0..4}
    \cup {TouchSample(c, v, "clobber") :
              c \in (MaxTouchPoints + 1)..MaxTouchSamples, v \in 0..4}

\* before the first PollInputEvents: nothing was sampled
NoFrame == [touch |-> NoTouchSample, pads |-> [j \in Gamepads |-> NoPad]]

\* the frames of the gamepad specification: one controller with a rich
\* sample and the other slots empty, or every slot with one of the few
GamepadFrames ==
    {[touch |-> NoTouchSample, pads |-> [j \in Gamepads |-> IF j = i THEN s ELSE NoPad]] :
        i \in Gamepads, s \in RichPadSamples}
    \cup {[touch |-> NoTouchSample, pads |-> f] : f \in [Gamepads -> FewPadSamples]}

\* frames of the touch screen, with no controller connected
TouchFrames ==
    {[touch |-> t, pads |-> [j \in Gamepads |-> NoPad]] : t \in TouchSamples}

\* samples of a controller for the frames of a whole program run: Plus and
\* Minus held together, Plus alone, nothing held
ProgramPadSamples ==
    {NoPad,
     Pad("NpadFullKey", {HidNpadButton_Plus, HidNpadButton_Minus}, 0, 0, 0, 0),
     Pad("NpadFullKey", {HidNpadButton_Plus}, 0, 0, 0, 0),
     Pad("NpadFullKey", {}, 0, 0, 0, 0)}

\* the frames of a whole program run: any of the samples on the first
\* controller, the others absent or holding nothing
ProgramFrames ==
    {[touch |-> NoTouchSample, pads |-> [j \in Gamepads |-> IF j = 0 THEN s ELSE t]] :
        s \in ProgramPadSamples,
        t \in {NoPad, Pad("NpadFullKey", {}, 0, 0, 0, 0)}}

\* samples of a controller moving the emulated mouse: the right stick at its
\* ends, half way and at rest
MousePadSamples ==
    {NoPad,
     Pad("NpadFullKey", {}, 0, 0, JOYSTICK_MAX, JOYSTICK_MAX),
     Pad("NpadFullKey", {}, 0, 0, -JOYSTICK_MAX, 16384),
     Pad("NpadFullKey", {}, 0, 0, 0, -JOYSTICK_MAX)}

\* the frames moving the emulated mouse: any of the samples on the first
\* controller, the others absent or pushing the stick right
MouseFrames ==
    {[touch |-> NoTouchSample, pads |-> [j \in Gamepads |-> IF j = 0 THEN s ELSE t]] :
        s \in MousePadSamples,
        t \in {NoPad, Pad("NpadFullKey", {}, 0, 0, JOYSTICK_MAX, 0)}}

\* answers of the native calls of a whole program run: all succeed, or the
\* display is not obtained
ProgramAnswers ==
    {in \in InitAnswers :
        /\ in.initialize /\ in.context /\ in.surface /\ in.makeCurrent
        /\ \A i \in Gamepads : in.styles[i] = "NpadFullKey"}

\* frames with one controller connected, or none
OnePadFrames ==
    {[touch |-> NoTouchSample, pads |-> [j \in Gamepads |-> IF j = i THEN s ELSE NoPad]] :
        i \in Gamepads, s \in RichPadSamples \cup {NoPad}}

\* answers of the native calls with which InitPlatform succeeds
SuccessAnswers ==
    {in \in InitAnswers :
        /\ in.display /\ in.initialize /\ in.context /\ in.surface /\ in.makeCurrent
        /\ \A i \in Gamepads : in.styles[i] = "NpadFullKey"}

\* answers of the native calls the life-cycle specification draws from
LifeCycleAnswers ==
    {in \in InitAnswers : \A i \in Gamepads : in.styles[i] = "NpadHandheld"}

----------------------------------------------------------------------------
(* Specifications                                                          *)

\* program start
Init ==
    /\ CORE = ZeroCORE
    /\ platform = ZeroPlatform
    /\ egl = ZeroEgl
    /\ clock = 0
    /\ NX_DISABLE_GAMEPAD_EMULATION = FALSE
    /\ lastOp = "none"
    /\ ret = Void
    /\ calls = <<>>
    /\ frames = 0
    /\ sampled = NoFrame
    /\ lastTime = NoTime

\* the life cycle of the graphics context
Next ==
    \/ \E in \in LifeCycleAnswers : InitPlatform(in)
    \/ ClosePlatform
    \/ SwapScreenBuffer
    \/ \E a \in BOOLEAN : WindowShouldClose(a)

Spec == Init /\ [][Next]_vars

\* the window, cursor and unavailable functions, around a successful start
NextWindow ==
    \/ \E in \in SuccessAnswers : InitPlatform(in)
    \/ ClosePlatform
    \/ \E fn \in UnsupportedFunctions : Unsupported(fn)
    \/ \E t \in {"game"} : SetWindowTitle(t)
    \/ \E w \in {320} : SetWindowMinSize(w, 240)
    \/ \E w \in {1920} : SetWindowMaxSize(w, 1080)
    \/ \E x \in {-5, 2000} : SetMousePosition(x, x)
    \/ ShowCursor
    \/ HideCursor
    \/ EnableCursor
    \/ DisableCursor
    \/ \E q \in BOOLEAN : OpenURL(q)

SpecWindow == Init /\ [][NextWindow]_vars

\* the timer
NextTime ==
    \/ \E in \in SuccessAnswers : InitPlatform(in)
    \/ \E d \in 1..2 : Tick(d)
    \/ GetTime

SpecTime == Init /\ [][NextTime]_vars

\* the state after a successful start, in a build with the flag as given
Started(disabled) ==
    /\ \E in \in SuccessAnswers :
         \E r \in {InitPlatformRun(ZeroCORE, ZeroPlatform, ZeroEgl, 0, in)} :
            /\ CORE = r.CORE
            /\ platform = r.platform
            /\ egl = r.egl
            /\ ret = r.ret
            /\ calls = r.calls
    /\ clock = 0
    /\ NX_DISABLE_GAMEPAD_EMULATION = disabled
    /\ lastOp = "InitPlatform"
    /\ frames = 0
    /\ sampled = NoFrame
    /\ lastTime = NoTime

\* per-frame polling of the gamepads in the default build (emulation on)
InitInput == Started(FALSE)

NextInput == \E in \in GamepadFrames : PollInputEvents(in)

SpecInput == InitInput /\ [][NextInput]_vars

\* a whole program run: start with the exit key the application chose, then
\* initialisation, frames, queries and teardown in any order
InitProgram ==
    /\ \E key \in {KEY_ESCAPE, KEY_ENTER} :
          CORE = [ZeroCORE EXCEPT !.Input.Keyboard.exitKey = key]
    /\ platform = ZeroPlatform
    /\ egl = ZeroEgl
    /\ clock = 0
    /\ NX_DISABLE_GAMEPAD_EMULATION = FALSE
    /\ lastOp = "none"
    /\ ret = Void
    /\ calls = <<>>
    /\ frames = 0
    /\ sampled = NoFrame
    /\ lastTime = NoTime

NextProgram ==
    \/ \E in \in ProgramAnswers : InitPlatform(in)
    \/ \E in \in ProgramFrames : PollInputEvents(in)
    \/ \E a \in BOOLEAN : WindowShouldClose(a)
    \/ ClosePlatform
    \/ HideCursor
    \/ \E fn \in {"SetWindowSize"} : Unsupported(fn)

SpecProgram == InitProgram /\ [][NextProgram]_vars

\* the emulated mouse: start with the mouse scale the application chose,
\* initialise, then frames and SetMousePosition in any order
InitMouse ==
    /\ \E scale \in {1, 2} :
          CORE = [ZeroCORE EXCEPT !.Input.Mouse.scale =
                                      Vector2(ToFloat(scale), ToFloat(scale))]
    /\ platform = ZeroPlatform
    /\ egl = ZeroEgl
    /\ clock = 0
    /\ NX_DISABLE_GAMEPAD_EMULATION = FALSE
    /\ lastOp = "none"
    /\ ret = Void
    /\ calls = <<>>
    /\ frames = 0
    /\ sampled = NoFrame
    /\ lastTime = NoTime

NextMouse ==
    \/ \E in \in SuccessAnswers : InitPlatform(in)
    \/ \E in \in MouseFrames : PollInputEvents(in)
    \/ \E x \in {-5, 2000} : SetMousePosition(x, x)

SpecMouse == InitMouse /\ [][NextMouse]_vars

\* per-frame polling of the touch screen
NextTouch == \E in \in TouchFrames : PollInputEvents(in)

SpecTouch == InitInput /\ [][NextTouch]_vars

\* per-frame polling in either build, with and without the flag
InitBuild == \E disabled \in BOOLEAN : Started(disabled)

NextBuild == \E in \in OnePadFrames : PollInputEvents(in)

SpecBuild == InitBuild /\ [][NextBuild]_vars

----------------------------------------------------------------------------
(* Properties                                                              *)

Polled == lastOp = "PollInputEvents"

\* C1: after every PollInputEvents call each entry of every previous-state
\* array (keyboard, gamepad buttons, mouse buttons, touch) equals the value
\* the matching current-state entry held when the call began.
PreviousIsPriorCurrent ==
    [][lastOp' = "PollInputEvents" =>
        /\ CORE'.Input.Keyboard.previousKeyState = CORE.Input.Keyboard.currentKeyState
        /\ CORE'.Input.Gamepad.previousButtonState = CORE.Input.Gamepad.currentButtonState
        /\ CORE'.Input.Mouse.previousButtonState = CORE.Input.Mouse.currentButtonState
        /\ CORE'.Input.Touch.previousTouchState = CORE.Input.Touch.currentTouchState]_vars

\* the first poll, with ZL held: the right mouse button was up when the call
\* began, yet its previous state reads down
PreviousHoldsSameFrameValue ==
    /\ Polled
    /\ frames = 1
    /\ CORE.Input.Mouse.previousButtonState[MOUSE_BUTTON_RIGHT] = 1
    /\ CORE.Input.Mouse.currentButtonState[MOUSE_BUTTON_RIGHT] = 1

\* the calls by which InitPlatform reports a failure
FailureLogs == {"TRACELOG(LOG_WARNING)", "TRACELOG(LOG_FATAL)"}

InitPlatformFailed ==
    /\ lastOp = "InitPlatform"
    /\ \E n \in 1..Len(calls) : calls[n] \in FailureLogs

\* C2: whenever InitPlatform fails (display not obtained or not initialised,
\* context not created, surface/context not made current) it returns a value
\* different from the 0 it returns on success.
FailureReturnDiffers == InitPlatformFailed => ret.a # 0

\* InitPlatform gave up on the display and returned 0
DisplayFailureReturnsZero ==
    /\ InitPlatformFailed
    /\ platform.device = EGL_NO_DISPLAY
    /\ ret = IntRet(0)

\* the native calls that destroy, terminate or exit
NativeReleaseCalls ==
    {"eglDestroySurface", "eglDestroyContext", "eglTerminate", "romfsExit"}

\* C3: after any ClosePlatform call the device, surface and context handles
\* equal their null sentinels, and a second ClosePlatform made immediately
\* afterwards issues no native destroy / terminate / exit call and changes
\* no state.
CloseResetsAndRepeats ==
    [][lastOp' = "ClosePlatform" =>
        /\ platform'.device = EGL_NO_DISPLAY
        /\ platform'.surface = EGL_NO_SURFACE
        /\ platform'.context = EGL_NO_CONTEXT
        /\ (lastOp = "ClosePlatform" =>
               /\ \A n \in 1..Len(calls') : calls'[n] \notin NativeReleaseCalls
               /\ CORE' = CORE
               /\ platform' = platform
               /\ egl' = egl)]_vars

\* ClosePlatform has returned and the surface and context handles are still set
CloseLeavesHandles ==
    /\ lastOp = "ClosePlatform"
    /\ platform.surface # EGL_NO_SURFACE
    /\ platform.context # EGL_NO_CONTEXT

\* C4: after an InitPlatform call that returns success (0) the window is
\* ready, the render size equals the screen size, 1280 x 720, and the display
\* and current-framebuffer sizes equal it too.
SuccessMeansReady ==
    (lastOp = "InitPlatform" /\ ret.a = 0) =>
        /\ CORE.Window.ready
        /\ CORE.Window.screen = Size(1280, 720)
        /\ CORE.Window.render = CORE.Window.screen
        /\ CORE.Window.display = CORE.Window.screen
        /\ CORE.Window.currentFbo = CORE.Window.screen

\* InitPlatform returned 0 and the window is not ready, with no render size
SuccessValueNotReady ==
    /\ lastOp = "InitPlatform"
    /\ ret.a = 0
    /\ ~CORE.Window.ready
    /\ CORE.Window.render = Size(0, 0)

\* C5 as stated: every unsupported operation leaves CORE and the platform
\* data unchanged and returns false, zero, the empty string or null.
UnsupportedReturnsZero ==
    [][lastOp' \in UnsupportedFunctions =>
        /\ CORE' = CORE
        /\ platform' = platform
        /\ ret'.a = 0
        /\ ret'.b = 0]_vars

\* the two unsupported queries whose default is not zero, and their defaults
NonZeroDefaults ==
    [fn \in {"GetMonitorCount", "GetWindowScaleDPI"} |->
        IF fn = "GetMonitorCount" THEN <<1, 0>> ELSE <<ToFloat(1), ToFloat(1)>>]

\* C5: every unsupported operation leaves CORE and the platform data
\* unchanged, only logs a warning, and returns false, zero, the empty string
\* or null; except GetMonitorCount, which returns 1, and GetWindowScaleDPI,
\* which returns (1.0, 1.0).
UnsupportedLeavesState ==
    [][lastOp' \in UnsupportedFunctions =>
        /\ CORE' = CORE
        /\ platform' = platform
        /\ calls' = <<"TRACELOG(LOG_WARNING)">>
        /\ <<ret'.a, ret'.b>> =
              IF lastOp' \in DOMAIN NonZeroDefaults
              THEN NonZeroDefaults[lastOp'] ELSE <<0, 0>>]_vars

\* an unsupported query answered in a started program whose state is not
\* the zero state any more
UnsupportedCalledWhenStarted ==
    /\ lastOp = "GetWindowScaleDPI"
    /\ ret = Vec2Ret(Vector2(ToFloat(1), ToFloat(1)))
    /\ CORE.Window.ready
    /\ CORE.Input.Mouse.cursorHidden
    /\ platform.device # EGL_NO_DISPLAY

\* C6: in every reachable state each of the device, surface and context
\* handles is its null sentinel or a live handle (for the device: the handle
\* of the default display); no handle is destroyed twice; and every handle
\* InitPlatform acquired is released by the next ClosePlatform.
HandlesLiveAndReleased ==
    /\ platform.device \in {EGL_NO_DISPLAY, EGL_DEFAULT_DISPLAY_HANDLE}
    /\ platform.surface \in {EGL_NO_SURFACE} \cup egl.live
    /\ platform.context \in {EGL_NO_CONTEXT} \cup egl.live
    /\ ~egl.doubleFree
    /\ (lastOp = "ClosePlatform" => egl.live = {})

\* ClosePlatform has returned and the display connection, a context and a
\* surface that InitPlatform acquired are still live
CloseLeavesLive ==
    /\ lastOp = "ClosePlatform"
    /\ Cardinality(egl.live) >= 3
    /\ platform.device = EGL_NO_DISPLAY

\* the axis value v of a raw stick reading: within [-1, 1], with the sign of
\* the reading, 1 and -1 at full deflection and 0 at rest
AxisOfRaw(raw, v) ==
    /\ -ToFloat(1) <= v /\ v <= ToFloat(1)
    /\ (raw = JOYSTICK_MAX) => (v = ToFloat(1))
    /\ (raw = -JOYSTICK_MAX) => (v = -ToFloat(1))
    /\ (raw >= 0) => (v >= 0)
    /\ (raw <= 0) => (v <= 0)

\* C7: after PollInputEvents, for every connected gamepad the four stick axis
\* values lie in [-1, 1] (raw reading over 32767), and the left and right
\* trigger axis values are exactly 0 or 1, and 1 exactly when ZL
\* (respectively ZR) is held.
AxesInRange ==
    Polled =>
        \A i \in Gamepads :
            sampled.pads[i].connected =>
                LET pad == sampled.pads[i]
                    axis == CORE.Input.Gamepad.axisState[i]
                IN /\ AxisOfRaw(pad.kAxisL.x, axis[GAMEPAD_AXIS_LEFT_X])
                   /\ AxisOfRaw(pad.kAxisL.y, axis[GAMEPAD_AXIS_LEFT_Y])
                   /\ AxisOfRaw(pad.kAxisR.x, axis[GAMEPAD_AXIS_RIGHT_X])
                   /\ AxisOfRaw(pad.kAxisR.y, axis[GAMEPAD_AXIS_RIGHT_Y])
                   /\ axis[GAMEPAD_AXIS_LEFT_TRIGGER] \in {ToFloat(0), ToFloat(1)}
                   /\ axis[GAMEPAD_AXIS_RIGHT_TRIGGER] \in {ToFloat(0), ToFloat(1)}
                   /\ (axis[GAMEPAD_AXIS_LEFT_TRIGGER] = ToFloat(1))
                        <=> (HidNpadButton_ZL \in pad.kHeld)
                   /\ (axis[GAMEPAD_AXIS_RIGHT_TRIGGER] = ToFloat(1))
                        <=> (HidNpadButton_ZR \in pad.kHeld)

\* a poll of a controller with the right stick at opposite ends, the left
\* stick at rest and both triggers held
AxesAtTheEnds ==
    /\ Polled
    /\ \E i \in Gamepads :
          /\ sampled.pads[i].connected
          /\ sampled.pads[i].kAxisR = Vector2(JOYSTICK_MAX, -JOYSTICK_MAX)
          /\ CORE.Input.Gamepad.axisState[i][GAMEPAD_AXIS_LEFT_X] = ToFloat(0)
          /\ CORE.Input.Gamepad.axisState[i][GAMEPAD_AXIS_RIGHT_X] = ToFloat(1)
          /\ CORE.Input.Gamepad.axisState[i][GAMEPAD_AXIS_RIGHT_Y] = -ToFloat(1)
          /\ CORE.Input.Gamepad.axisState[i][GAMEPAD_AXIS_LEFT_TRIGGER] = ToFloat(1)
          /\ CORE.Input.Gamepad.axisState[i][GAMEPAD_AXIS_RIGHT_TRIGGER] = ToFloat(1)

\* C8: GetTime returns the elapsed time since CORE.Time.base: with the base
\* not after the clock reading the result is (reading - base) >= 0, two
\* successive calls with the base unchanged and readings t1 <= t2 give
\* 0 <= r1 <= r2, and GetTime changes neither the base nor any other shared
\* state.
GetTimeElapsed ==
    [][lastOp' = "GetTime" =>
        /\ CORE' = CORE
        /\ platform' = platform
        /\ (CORE.Time.base <= clock =>
               /\ ret'.kind = "double"
               /\ ret'.a = clock - CORE.Time.base
               /\ ret'.a >= 0
               /\ (/\ lastTime.valid
                   /\ lastTime.base = CORE.Time.base
                   /\ lastTime.base <= lastTime.clock
                   /\ lastTime.clock <= clock)
                  => (0 <= lastTime.result /\ lastTime.result <= ret'.a))]_vars

\* two successive GetTime calls with the same base, set after program start,
\* and the clock advanced in between
GetTimeTwice ==
    /\ lastOp = "GetTime"
    /\ lastTime.valid
    /\ lastTime.earlier
    /\ lastTime.earlierBase = lastTime.base
    /\ lastTime.base > 0
    /\ lastTime.earlierResult > 0
    /\ lastTime.earlierResult < lastTime.result

\* 1 when the condition holds, else 0
Down(cond) == IF cond THEN 1 ELSE 0

\* the emulated keyboard and mouse after a poll in which the last connected
\* controller held kHeld; bothHeld says that some connected controller held
\* Plus and Minus together, escapeBefore is the ESCAPE key state before the poll
DrivenBy(C, kHeld, bothHeld, escapeBefore) ==
    LET key == C.Input.Keyboard.currentKeyState
        button == C.Input.Mouse.currentButtonState
        right == HidNpadButton_Right \in kHeld \/ HidNpadButton_StickLRight \in kHeld
        left == HidNpadButton_Left \in kHeld \/ HidNpadButton_StickLLeft \in kHeld
        down == HidNpadButton_Down \in kHeld \/ HidNpadButton_StickLDown \in kHeld
        up == HidNpadButton_Up \in kHeld \/ HidNpadButton_StickLUp \in kHeld
        plus == HidNpadButton_Plus \in kHeld
        minus == HidNpadButton_Minus \in kHeld
    IN /\ key[KEY_RIGHT] = Down(right) /\ key[KEY_D] = Down(right)
       /\ key[KEY_LEFT] = Down(left) /\ key[KEY_A] = Down(left)
       /\ key[KEY_DOWN] = Down(down) /\ key[KEY_S] = Down(down)
       /\ key[KEY_UP] = Down(up) /\ key[KEY_W] = Down(up)
       /\ key[KEY_Q] = Down(HidNpadButton_Y \in kHeld)
       /\ key[KEY_E] = Down(HidNpadButton_A \in kHeld)
       /\ key[KEY_R] = Down(HidNpadButton_X \in kHeld)
       /\ key[KEY_F] = Down(HidNpadButton_B \in kHeld)
       /\ key[KEY_ENTER] = Down(plus /\ ~minus)
       /\ key[KEY_SPACE] = Down(minus /\ ~plus)
       /\ key[KEY_ESCAPE] = (IF bothHeld THEN 1 ELSE escapeBefore)
       /\ (key[KEY_ESCAPE] = 1) => C.Window.shouldClose
       /\ key[KEY_LEFT_SHIFT] = Down(HidNpadButton_StickL \in kHeld)
       /\ button[MOUSE_BUTTON_RIGHT] = Down(HidNpadButton_ZL \in kHeld)
       /\ button[MOUSE_BUTTON_LEFT] = Down(HidNpadButton_ZR \in kHeld)
       /\ C.Input.Mouse.currentWheelMove =
             (IF HidNpadButton_L \in kHeld THEN Vector2(ToFloat(0), -ToFloat(1))
              ELSE IF HidNpadButton_R \in kHeld THEN Vector2(ToFloat(0), ToFloat(1))
              ELSE Vector2(ToFloat(0), ToFloat(0)))

\* the connected controllers of a frame
Connected(in) == {i \in Gamepads : in.pads[i].connected}

\* the largest element of a non-empty set of numbers
Highest(S) == CHOOSE n \in S : \A m \in S : m <= n

\* C9: with NX_DISABLE_GAMEPAD_EMULATION defined, PollInputEvents sets no
\* current key state, no mouse state and not CORE.Window.shouldClose, and
\* changes the previous key states only by the previous <- current copy;
\* with the flag not defined, the held buttons of a connected gamepad drive
\* the emulated keys and the mouse state.
EmulationFollowsFlag ==
    [][lastOp' = "PollInputEvents" =>
        IF NX_DISABLE_GAMEPAD_EMULATION
        THEN /\ CORE'.Input.Keyboard.currentKeyState = CORE.Input.Keyboard.currentKeyState
             /\ CORE'.Input.Mouse = CORE.Input.Mouse
             /\ CORE'.Window.shouldClose = CORE.Window.shouldClose
             /\ \A k \in Keys :
                   CORE'.Input.Keyboard.previousKeyState[k] \in
                       {CORE.Input.Keyboard.previousKeyState[k],
                        CORE.Input.Keyboard.currentKeyState[k]}
        ELSE Connected(sampled') # {} =>
                DrivenBy(CORE', sampled'.pads[Highest(Connected(sampled'))].kHeld,
                         \E i \in Connected(sampled') :
                             {HidNpadButton_Plus, HidNpadButton_Minus}
                                 \subseteq sampled'.pads[i].kHeld,
                         CORE.Input.Keyboard.currentKeyState[KEY_ESCAPE])]_vars

\* a build with the flag defined: a connected controller holds Right and
\* the stick, its buttons and axes are registered, and no key or mouse
\* state follows
HeldWithoutEmulation ==
    /\ Polled
    /\ NX_DISABLE_GAMEPAD_EMULATION
    /\ \E i \in Gamepads :
          /\ sampled.pads[i].connected
          /\ HidNpadButton_Right \in sampled.pads[i].kHeld
          /\ HidNpadButton_ZL \in sampled.pads[i].kHeld
          /\ sampled.pads[i].kAxisR.x = JOYSTICK_MAX
          /\ CORE.Input.Gamepad.currentButtonState[i][GAMEPAD_BUTTON_LEFT_FACE_RIGHT] = 1
          /\ CORE.Input.Gamepad.axisState[i][GAMEPAD_AXIS_RIGHT_X] = ToFloat(1)
    /\ CORE.Input.Keyboard.currentKeyState[KEY_RIGHT] = 0
    /\ CORE.Input.Mouse.currentButtonState[MOUSE_BUTTON_RIGHT] = 0
    /\ CORE.Input.Mouse.currentPosition = Vector2(0, 0)

\* the fixed table: logical button, console button
ButtonPairs ==
    {<<1, HidNpadButton_Up>>, <<2, HidNpadButton_Right>>,
     <<3, HidNpadButton_Down>>, <<4, HidNpadButton_Left>>,
     <<5, HidNpadButton_X>>, <<6, HidNpadButton_A>>,
     <<7, HidNpadButton_B>>, <<8, HidNpadButton_Y>>,
     <<9, HidNpadButton_L>>, <<10, HidNpadButton_ZL>>,
     <<11, HidNpadButton_R>>, <<12, HidNpadButton_ZR>>,
     <<13, HidNpadButton_Minus>>, <<15, HidNpadButton_Plus>>,
     <<16, HidNpadButton_StickL>>, <<17, HidNpadButton_StickR>>}

\* the logical buttons whose console button is in kHeld
HeldLogical(kHeld) == {p[1] : p \in {q \in ButtonPairs : q[2] \in kHeld}}

\* C10: after PollInputEvents, for every connected gamepad i and logical
\* button k, currentButtonState[i][k] is 1 exactly when the console button
\* the fixed table assigns to k is held, and 0 for a logical button with no
\* table entry; lastButtonPressed is the highest-numbered held logical button
\* of the last connected gamepad that has one held, or 0 if none is held.
ButtonsFollowTable ==
    Polled =>
        /\ \A i \in Connected(sampled) :
              \A k \in GamepadButtons :
                  CORE.Input.Gamepad.currentButtonState[i][k] =
                      Down(k \in HeldLogical(sampled.pads[i].kHeld))
        /\ LET holding == {i \in Connected(sampled) :
                              HeldLogical(sampled.pads[i].kHeld) # {}}
           IN CORE.Input.Gamepad.lastButtonPressed =
                 IF holding = {} THEN 0
                 ELSE Highest(HeldLogical(sampled.pads[Highest(holding)].kHeld))

\* two controllers connected: the last holds nothing, the one before holds
\* Right, Y, ZL, Minus and Plus, and Plus is the last button pressed
LastButtonOfEarlierPad ==
    /\ Polled
    /\ Connected(sampled) = Gamepads
    /\ \E i \in Gamepads :
          /\ i + 1 \in Gamepads
          /\ \A j \in Gamepads : j > i => sampled.pads[j].kHeld = {}
          /\ HeldLogical(sampled.pads[i].kHeld) = {2, 8, 10, 13, 15}
          /\ CORE.Input.Gamepad.currentButtonState[i][GAMEPAD_BUTTON_RIGHT_FACE_LEFT] = 1
          /\ CORE.Input.Gamepad.currentButtonState[i][GAMEPAD_BUTTON_RIGHT_FACE_UP] = 0
    /\ CORE.Input.Gamepad.lastButtonPressed = GAMEPAD_BUTTON_MIDDLE_RIGHT

\* C11: with emulation enabled and one connected gamepad, after
\* PollInputEvents: with Plus and Minus both held ESCAPE is down and ENTER
\* and SPACE are up; otherwise ESCAPE keeps its value, ENTER is down exactly
\* when Plus is held and SPACE exactly when Minus is held; so whenever a poll
\* sets ESCAPE down from up, ENTER and SPACE are up in the same frame.
PlusMinusKeys ==
    [][(lastOp' = "PollInputEvents" /\ ~NX_DISABLE_GAMEPAD_EMULATION
            /\ Cardinality(Connected(sampled')) = 1) =>
        LET kHeld == sampled'.pads[Highest(Connected(sampled'))].kHeld
            plus == HidNpadButton_Plus \in kHeld
            minus == HidNpadButton_Minus \in kHeld
            before == CORE.Input.Keyboard.currentKeyState
            after == CORE'.Input.Keyboard.currentKeyState
        IN /\ (plus /\ minus) =>
                 (after[KEY_ESCAPE] = 1 /\ after[KEY_ENTER] = 0 /\ after[KEY_SPACE] = 0)
           /\ ~(plus /\ minus) =>
                 /\ after[KEY_ESCAPE] = before[KEY_ESCAPE]
                 /\ (after[KEY_ENTER] = 1) <=> plus
                 /\ (after[KEY_SPACE] = 1) <=> minus
                 /\ after[KEY_ENTER] \in {0, 1}
                 /\ after[KEY_SPACE] \in {0, 1}
           /\ (before[KEY_ESCAPE] = 0 /\ after[KEY_ESCAPE] = 1) =>
                 (after[KEY_ENTER] = 0 /\ after[KEY_SPACE] = 0)]_vars

\* the one connected controller holds Plus and Minus with other buttons, and
\* the poll has set ESCAPE down (it was up in the frame before) with ENTER
\* and SPACE up
EscapeSetDown ==
    /\ Polled
    /\ Cardinality(Connected(sampled)) = 1
    /\ \E i \in Connected(sampled) :
          {HidNpadButton_Plus, HidNpadButton_Minus} \subseteq sampled.pads[i].kHeld
    /\ CORE.Input.Keyboard.currentKeyState[KEY_ESCAPE] = 1
    /\ CORE.Input.Keyboard.previousKeyState[KEY_ESCAPE] = 0
    /\ CORE.Input.Keyboard.currentKeyState[KEY_ENTER] = 0
    /\ CORE.Input.Keyboard.currentKeyState[KEY_SPACE] = 0

\* C12: after every PollInputEvents call in which the touch-screen read
\* returns a sample, pointCount equals the sampled count and for every i
\* below the count position[i] and pointId[i] equal the i-th sampled touch's
\* x, y and finger id; entries at or above the count are unchanged; when no
\* sample is returned all touch fields keep their values.
TouchFollowsSample ==
    [][lastOp' = "PollInputEvents" =>
        LET t == sampled'.touch
            before == CORE.Input.Touch
            after == CORE'.Input.Touch
        IN IF t.returned
           THEN /\ after.pointCount = t.count
                /\ \A i \in 0..(t.count - 1) :
                      /\ i \in DOMAIN after.position
                      /\ i \in DOMAIN after.pointId
                      /\ after.position[i] = Vector2(ToFloat(t.touches[i + 1].x),
                                                      ToFloat(t.touches[i + 1].y))
                      /\ after.pointId[i] = t.touches[i + 1].finger_id
                /\ \A i \in TouchPoints :
                      i >= t.count =>
                          /\ after.position[i] = before.position[i]
                          /\ after.pointId[i] = before.pointId[i]
           ELSE after = before]_vars

\* a sample with more touches than the arrays have entries: after the poll
\* entry 0 of position is not the first touch of the sample
FirstTouchOverwritten ==
    /\ Polled
    /\ sampled.touch.returned
    /\ sampled.touch.count > MaxTouchPoints
    /\ CORE.Input.Touch.position[0] #
           Vector2(ToFloat(sampled.touch.touches[1].x), ToFloat(sampled.touch.touches[1].y))

\* C17: PollInputEvents never writes outside the shared touch arrays: every
\* index i at which it writes position[i], pointId[i] and touchDeltaTime[i]
\* is below MAX_TOUCH_POINTS, and pointCount never exceeds MAX_TOUCH_POINTS.
TouchWritesInBounds ==
    /\ ~platform.outOfBounds
    /\ CORE.Input.Touch.pointCount <= MaxTouchPoints

\* a poll has stored past the end of the touch arrays and left a pointCount
\* larger than the arrays
TouchArraysOverrun ==
    /\ Polled
    /\ sampled.touch.count = MaxTouchPoints + 1
    /\ platform.outOfBounds
    /\ CORE.Input.Touch.pointCount = MaxTouchPoints + 1

\* the steps of InitPlatform after the surface and context are current
LaterSteps ==
    {"rlLoadExtensions", "padConfigureInput", "padInitialize",
     "hidInitializeTouchScreen", "InitTimer", "GetWorkingDirectory"}

\* C13: if InitPlatform fails at any step it does not set CORE.Window.ready
\* to true: from ready = false, ready is true after InitPlatform only if
\* eglMakeCurrent succeeded; and none of the later steps (extension loading,
\* gamepad and touch-screen initialisation, timer, storage base path) is
\* performed on a failure path.
FailureStopsInit ==
    [][lastOp' = "InitPlatform" =>
        /\ InitPlatformFailed' =>
              /\ CORE'.Window.ready = CORE.Window.ready
              /\ \A n \in 1..Len(calls') : calls'[n] \notin LaterSteps
              /\ CORE'.Time = CORE.Time
              /\ CORE'.Storage = CORE.Storage
              /\ CORE'.Input = CORE.Input
              /\ platform'.nxPadStyle = platform.nxPadStyle
        /\ (~CORE.Window.ready /\ CORE'.Window.ready) =>
              /\ ~InitPlatformFailed'
              /\ \E n \in 1..Len(calls') : calls'[n] = "eglMakeCurrent"
              /\ ret' = IntRet(0)]_vars

\* InitPlatform got as far as eglMakeCurrent, which failed: the surface and
\* context exist, the window is not ready and no later step has run
MakeCurrentFailed ==
    /\ lastOp = "InitPlatform"
    /\ "TRACELOG(LOG_FATAL)" \in {calls[n] : n \in 1..Len(calls)}
    /\ platform.surface # EGL_NO_SURFACE
    /\ platform.context # EGL_NO_CONTEXT
    /\ ~CORE.Window.ready
    /\ CORE.Storage.basePath = ""
    /\ ret = IntRet(InitPlatformContextFailure)

\* the console's answer to appletMainLoop in the last WindowShouldClose call
AppletRunning == calls = <<"appletMainLoop:true">>

\* C14: WindowShouldClose returns true whenever the applet main loop has
\* ended or CORE.Window.ready is false, and returns CORE.Window.shouldClose
\* when the applet is running and the window is ready; it returns true in
\* every state before a successful InitPlatform (the base path is still
\* unset); it leaves the shared state as it was.
ShouldCloseAnswer ==
    [][lastOp' = "WindowShouldClose" =>
        /\ CORE' = CORE
        /\ platform' = platform
        /\ egl' = egl
        /\ (~AppletRunning' \/ ~CORE.Window.ready) => ret' = BoolRet(TRUE)
        /\ (AppletRunning' /\ CORE.Window.ready) =>
               ret' = BoolRet(CORE.Window.shouldClose)
        /\ CORE.Storage.basePath = "" => ret' = BoolRet(TRUE)]_vars

\* C14 case: the applet runs, the window is ready and no close was
\* requested: WindowShouldClose answered false
ReadyWindowStaysOpen ==
    /\ lastOp = "WindowShouldClose"
    /\ AppletRunning
    /\ CORE.Window.ready
    /\ ~CORE.Window.shouldClose
    /\ ret = BoolRet(FALSE)

\* the keyboard after the gamepads below n have been mapped, K being the
\* keyboard at the start of the poll and in the samples of the poll
RECURSIVE MappedKeyboard(_, _, _)
MappedKeyboard(K, in, n) ==
    IF n = 0 THEN K
    ELSE LET B == MappedKeyboard(K, in, n - 1)
         IN IF in.pads[n - 1].connected
            THEN EmulateKeyboard(B, in.pads[n - 1].kHeld)
            ELSE B

\* after the mapping of some connected gamepad the exit key is down
ExitKeyDown(K, in) ==
    \E i \in Connected(in) :
        LET A == MappedKeyboard(K, in, i + 1)
        IN A.currentKeyState[A.exitKey] = 1

\* C15: with emulation enabled a poll sets CORE.Window.shouldClose exactly
\* when the exit key is down after the mapping of some connected gamepad;
\* once true it stays true through every operation, the window stays ready,
\* and WindowShouldClose on a ready window returns true from then on.
CloseRequestSticks ==
    [][/\ CORE.Window.shouldClose => CORE'.Window.shouldClose
       /\ CORE.Window.ready => CORE'.Window.ready
       /\ (lastOp' = "PollInputEvents" /\ ~NX_DISABLE_GAMEPAD_EMULATION) =>
              CORE'.Window.shouldClose =
                  (CORE.Window.shouldClose \/ ExitKeyDown(CORE.Input.Keyboard, sampled'))
       /\ (lastOp' = "WindowShouldClose" /\ CORE.Window.ready
              /\ CORE.Window.shouldClose) => ret' = BoolRet(TRUE)]_vars

\* C15 case: the exit key was released in a later frame, the close request
\* is still set and WindowShouldClose answered true while the applet runs
CloseRequestOutlivesKey ==
    /\ lastOp = "WindowShouldClose"
    /\ AppletRunning
    /\ frames >= 2
    /\ Connected(sampled) # {}
    /\ CORE.Window.ready
    /\ CORE.Window.shouldClose
    /\ CORE.Input.Keyboard.currentKeyState[CORE.Input.Keyboard.exitKey] = 0
    /\ ret = BoolRet(TRUE)

\* C16: with emulation enabled and a gamepad connected, after a poll the
\* mouse position is within 0..screen.width/scale.x and
\* 0..screen.height/scale.y whatever it was before; from a position within
\* that range a poll moves it at most 10 units per axis per connected gamepad.
MouseStaysOnScreen ==
    [][(lastOp' = "PollInputEvents" /\ ~NX_DISABLE_GAMEPAD_EMULATION
            /\ Connected(sampled') # {}) =>
        LET now == CORE'.Input.Mouse.currentPosition
            was == CORE.Input.Mouse.currentPosition
            right == FloatDiv(ToFloat(CORE'.Window.screen.width),
                              CORE'.Input.Mouse.scale.x)
            bottom == FloatDiv(ToFloat(CORE'.Window.screen.height),
                               CORE'.Input.Mouse.scale.y)
            reach == Cardinality(Connected(sampled')) * ToFloat(10)
        IN /\ 0 <= now.x /\ now.x <= right
           /\ 0 <= now.y /\ now.y <= bottom
           /\ (0 <= was.x /\ was.x <= right) =>
                  (now.x - was.x <= reach /\ was.x - now.x <= reach)
           /\ (0 <= was.y /\ was.y <= bottom) =>
                  (now.y - was.y <= reach /\ was.y - now.y <= reach)]_vars

\* C16 case: SetMousePosition had put the mouse right of a scaled screen and
\* the poll brought it back to the right edge
MouseBroughtBack ==
    /\ Polled
    /\ Connected(sampled) # {}
    /\ CORE.Window.screen.width > 0
    /\ CORE.Input.Mouse.scale.x = ToFloat(2)
    /\ CORE.Input.Mouse.previousPosition.x = ToFloat(2000)
    /\ CORE.Input.Mouse.currentPosition.x =
           FloatDiv(ToFloat(CORE.Window.screen.width), CORE.Input.Mouse.scale.x)

\* C18: for a gamepad that is not connected at a poll, the poll sets ready
\* to false and leaves its previous and current button states, axis values,
\* axis count and name as they were; with no gamepad connected the emulated
\* keys and mouse are not driven. A button that was down stays down.
AbsentGamepadUntouched ==
    [][lastOp' = "PollInputEvents" =>
        /\ \A i \in Gamepads \ Connected(sampled') :
              /\ ~CORE'.Input.Gamepad.ready[i]
              /\ CORE'.Input.Gamepad.previousButtonState[i] =
                     CORE.Input.Gamepad.previousButtonState[i]
              /\ CORE'.Input.Gamepad.currentButtonState[i] =
                     CORE.Input.Gamepad.currentButtonState[i]
              /\ CORE'.Input.Gamepad.axisState[i] = CORE.Input.Gamepad.axisState[i]
              /\ CORE'.Input.Gamepad.axisCount[i] = CORE.Input.Gamepad.axisCount[i]
              /\ CORE'.Input.Gamepad.name[i] = CORE.Input.Gamepad.name[i]
              /\ platform'.nxPadStyle[i] = platform.nxPadStyle[i]
        /\ Connected(sampled') = {} =>
              /\ CORE'.Input.Keyboard.currentKeyState = CORE.Input.Keyboard.currentKeyState
              /\ CORE'.Input.Mouse = CORE.Input.Mouse
              /\ CORE'.Window.shouldClose = CORE.Window.shouldClose]_vars

\* C18 case: a gamepad was polled while not connected and a button that
\* was down when it was last connected is still down
AbsentGamepadButtonDown ==
    /\ Polled
    /\ frames >= 2
    /\ \E i \in Gamepads \ Connected(sampled) :
          /\ ~CORE.Input.Gamepad.ready[i]
          /\ \E k \in DOMAIN CORE.Input.Gamepad.currentButtonState[i] :
                CORE.Input.Gamepad.currentButtonState[i][k] = 1

====
